---- MODULE Spec2Model ----
(***************************************************************************)
(* Model of package llm_assistant of medusa: GenerateFuzzingHarness, the   *)
(* generate / validate / repair loop over a collection of contract         *)
(* definitions, the process-wide message history and the test files.       *)
(*                                                                         *)
(* Go strings are modelled as sequences of tokens (a token is a TLA+       *)
(* string): concatenation is \o, so that embedding, verbatim copies and    *)
(* path surgery are computed, not assumed.                                 *)
(***************************************************************************)
EXTENDS Integers, Sequences, FiniteSets, TLC

VARIABLES
    messages,               \* var messages []Message (package level)
    files,                  \* the file system: path -> [exists, data]
    pc,                     \* position of the single goroutine
    contractDefinitions,    \* argument of GenerateFuzzingHarness
    i,                      \* index of the range loop in progress (1-based)
    testFilePath,           \* local of generateFuzzingHarness
    contractSourceCode,     \* local of generateFuzzingHarness
    testContractSourceCode, \* local of generateFuzzingHarness
    response,               \* local: the last text returned by AskGPT4Turbo
    stdErr,                 \* local: stderr of the last validateTestFile
    retErr,                 \* the error GenerateFuzzingHarness returned
    fatal,                  \* observer: the error raised by a collaborator
    log,                    \* observer: the external operations of the run
    wire                    \* observer: the texts exchanged with the client

vars == <<messages, files, pc, contractDefinitions, i, testFilePath,
          contractSourceCode, testContractSourceCode, response, stdErr,
          retErr, fatal, log, wire>>

locals == <<testFilePath, contractSourceCode, testContractSourceCode,
            response, stdErr>>

(***************************************************************************)
(* Bounds of the model.                                                    *)
(***************************************************************************)
MaxRepairs == 2    \* validator failures in a run; then the validator succeeds

MaxPathLen == 4    \* tokens of a path given to generateTestFilePath alone

MaxInvocations == 2    \* calls of GenerateFuzzingHarness in one process

(***************************************************************************)
(* Sequence helpers.                                                       *)
(***************************************************************************)
Last(s) == s[Len(s)]

IsPrefix(s, t) == Len(s) <= Len(t) /\ SubSeq(t, 1, Len(s)) = s

\* Index of the last occurrence of token c in s, 0 when there is none.
LastIndexOf(s, c) ==
    LET hits == {k \in 1..Len(s) : s[k] = c}
    IN  IF hits = {} THEN 0 ELSE CHOOSE k \in hits : \A m \in hits : m <= k

\* Number of elements of s that satisfy P.
Count(s, P(_)) == Cardinality({k \in 1..Len(s) : P(s[k])})

(***************************************************************************)
(* utils.go                                                                *)
(***************************************************************************)
\* filepath.Split: dir keeps its trailing separator.
Split(path) ==
    LET k == LastIndexOf(path, "/")
    IN  [dir |-> SubSeq(path, 1, k), file |-> SubSeq(path, k + 1, Len(path))]

\* filepath.Ext: the suffix of the last element starting at its final dot.
Ext(file) ==
    LET k == LastIndexOf(file, ".")
    IN  IF k = 0 THEN <<>> ELSE SubSeq(file, k, Len(file))

\* strings.TrimSuffix
TrimSuffix(s, suffix) ==
    IF Len(suffix) <= Len(s)
       /\ SubSeq(s, Len(s) - Len(suffix) + 1, Len(s)) = suffix
    THEN SubSeq(s, 1, Len(s) - Len(suffix))
    ELSE s

\* The part of filepath.Clean the paths of this model exercise: runs of
\* separators become one separator.
RECURSIVE Clean(_)
Clean(path) ==
    IF Len(path) < 2 THEN path
    ELSE IF path[1] = "/" /\ path[2] = "/" THEN Clean(Tail(path))
    ELSE <<path[1]>> \o Clean(Tail(path))

\* filepath.Join of two elements: empty elements are dropped, the rest are
\* joined with one separator and cleaned.
Join(dir, file) ==
    IF dir = <<>> THEN Clean(file)
    ELSE IF file = <<>> THEN Clean(dir)
    ELSE Clean(dir \o <<"/">> \o file)

generateTestContractName(contractName) == contractName \o <<"Test">>

\* generateTestFilePath that puts the suffix after the extension.
generateTestFilePathAfterExt(filePath) == filePath \o <<"_fuzz">>

generateTestFilePath(filePath) ==
    LET sp           == Split(filePath)
        ext          == Ext(sp.file)
        filename     == TrimSuffix(sp.file, ext)
        testFilename == filename \o <<"_fuzz">> \o ext
    IN  Join(sp.dir, testFilename)

(***************************************************************************)
(* prompts.go                                                              *)
(***************************************************************************)
GenerateFuzzHarnessPrompt(contractPath, testContractPath, contractContents, testContractContents, contractName, testContractName) ==
    <<"G0">> \o contractPath \o <<"G1">> \o contractContents
    \o <<"G2">> \o testContractPath \o <<"G3">> \o testContractContents
    \o <<"G4">> \o testContractName \o <<"G5">> \o contractName
    \o <<"G6">> \o testContractName \o <<"G7">> \o contractName
    \o <<"G8">> \o contractName \o <<"G9">> \o testContractName
    \o <<"G10">> \o contractName \o <<"G11">> \o testContractName
    \o <<"G12">>

RegenerateFuzzHarnessPrompt(errEncountered) ==
    <<"R0">> \o errEncountered \o <<"R1">>

Message(role, content) == [Role |-> role, Content |-> content]

TrainingPrompts ==
    << Message("system", <<"seed1">>),
       Message("system", <<"seed2">>),
       Message("system", <<"seed3">>),
       Message("system", <<"seed4">>),
       Message("system", <<"seed5">>) >>

(***************************************************************************)
(* The inputs: contract definitions, the files present at start, and the   *)
(* answers of the collaborators.                                           *)
(***************************************************************************)
PathA     == <<"d", "/", "A", ".", "s">>
PathAFuzz == <<"d", "/", "A", "_fuzz", ".", "s">>

Contract(name, sourcePath) == [Name |-> name, SourcePath |-> sourcePath]

ContractA == Contract(<<"A">>, PathA)

\* A second contract of the source file of A.
ContractB == Contract(<<"B">>, PathA)

\* A contract whose source file is named like the test file of A.
ContractC == Contract(<<"C">>, PathAFuzz)

ContractUniverse == {ContractA, ContractB, ContractC}

\* The collections: contracts of the universe in any order, each listed
\* once (a compilation names a contract once). A and B differ in name only,
\* so B is listed as the later contract of their file.
Collections ==
    { cds \in UNION {[1..n -> ContractUniverse] :
                        n \in 0..Cardinality(ContractUniverse)} :
        /\ \A j, k \in DOMAIN cds : cds[j] = cds[k] => j = k
        /\ \A k \in DOMAIN cds :
              cds[k] = ContractB => \E j \in 1..(k - 1) : cds[j] = ContractA }

SourcePaths == {c.SourcePath : c \in ContractUniverse}

AllPaths == SourcePaths \cup {generateTestFilePath(p) : p \in SourcePaths}

\* generateTestFilePath of each source path, computed once: the calls of
\* createTestFiles and generateFuzzingHarness look their result up here.
TestFilePathOf == [p \in SourcePaths |-> generateTestFilePath(p)]

Absent == [exists |-> FALSE, data |-> <<>>]

File(data) == [exists |-> TRUE, data |-> data]

\* The source file d/A.s exists; any other file may be there already (a test
\* file left by an earlier session, the source of contract C) or not.
InitialFiles ==
    { f \in [AllPaths -> {Absent, File(<<"old">>)}] : f[PathA].exists }

\* AskGPT4Turbo answers with one of these texts, or fails.
Responses == { <<"resp1">>, <<"resp2">> }

\* validateTestFile: (stderr, err) of utils.RunCommandWithOutputAndError.
\* err is nil when crytic-compile exits 0, an exit error when it ran and
\* reported a problem on stderr, a spawn error when it could not be run.
ValidatorOutcomes ==
    { [stdErr |-> <<>>, err |-> "nil"],
      [stdErr |-> <<"diag1">>, err |-> "ExitError"],
      [stdErr |-> <<>>, err |-> "ErrSpawn"] }

(***************************************************************************)
(* Observers.                                                              *)
(***************************************************************************)
\* An external operation: its name, the index of the contract definition it
\* is for, its outcome, and the path it acts on (<<>> when it has none).
Op(name, unit, outcome, path) == <<name, unit, outcome, path>>

Logged(op) == log' = Append(log, op)

\* The validator calls for a unit that did not report success.
ValidateFailures(l, unit) ==
    Count(l, LAMBDA e : e[1] = "validate" /\ e[2] = unit /\ e[3] # "ok")

\* The validator calls of the run that did not report success.
TotalFailures(l) == Count(l, LAMBDA e : e[1] = "validate" /\ e[3] # "ok")

\* What the generative client sees of a call made for a unit: the request,
\* which is the last message of the history it is sent, and its answer.
Sent(unit, history) == <<unit, history[Len(history)]>>

Received(unit, text) == <<unit, Message("system", text)>>

(***************************************************************************)
(* Control flow helpers.                                                   *)
(***************************************************************************)
\* Flow that validates without writing the first response.
FlowNoWrite(p) ==
    CASE p = "readSource"          -> "readTest"
      [] p = "readTest"            -> "storePrompt"
      [] p = "storePrompt"         -> "ask"
      [] p = "ask"                 -> "storeResponse"
      [] p = "storeResponse"       -> "validate"
      [] p = "write"               -> "validate"
      [] p = "repairStorePrompt"   -> "repairAsk"
      [] p = "repairAsk"           -> "repairStoreResponse"
      [] p = "repairStoreResponse" -> "repairWrite"
      [] p = "repairWrite"         -> "validate"

\* Flow that builds the generation request without reading the test file.
FlowNoReadTest(p) ==
    CASE p = "readSource"          -> "storePrompt"
      [] p = "readTest"            -> "storePrompt"
      [] p = "storePrompt"         -> "ask"
      [] p = "ask"                 -> "storeResponse"
      [] p = "storeResponse"       -> "write"
      [] p = "write"               -> "validate"
      [] p = "repairStorePrompt"   -> "repairAsk"
      [] p = "repairAsk"           -> "repairStoreResponse"
      [] p = "repairStoreResponse" -> "repairWrite"
      [] p = "repairWrite"         -> "validate"

\* Flow that stores the generation request before it reads the test file.
FlowPromptBeforeReadTest(p) ==
    CASE p = "readSource"          -> "storePrompt"
      [] p = "readTest"            -> "ask"
      [] p = "storePrompt"         -> "readTest"
      [] p = "ask"                 -> "storeResponse"
      [] p = "storeResponse"       -> "write"
      [] p = "write"               -> "validate"
      [] p = "repairStorePrompt"   -> "repairAsk"
      [] p = "repairAsk"           -> "repairStoreResponse"
      [] p = "repairStoreResponse" -> "repairWrite"
      [] p = "repairWrite"         -> "validate"

\* Flow that writes a response before it stores it in the history.
FlowWriteBeforeStore(p) ==
    CASE p = "readSource"          -> "readTest"
      [] p = "readTest"            -> "storePrompt"
      [] p = "storePrompt"         -> "ask"
      [] p = "ask"                 -> "write"
      [] p = "write"               -> "storeResponse"
      [] p = "storeResponse"       -> "validate"
      [] p = "repairStorePrompt"   -> "repairAsk"
      [] p = "repairAsk"           -> "repairWrite"
      [] p = "repairWrite"         -> "repairStoreResponse"
      [] p = "repairStoreResponse" -> "validate"

\* Flow with a repair cycle that forgets to store the response.
FlowNoStore(p) ==
    CASE p = "readSource"          -> "readTest"
      [] p = "readTest"            -> "storePrompt"
      [] p = "storePrompt"         -> "ask"
      [] p = "ask"                 -> "storeResponse"
      [] p = "storeResponse"       -> "write"
      [] p = "write"               -> "validate"
      [] p = "repairStorePrompt"   -> "repairAsk"
      [] p = "repairAsk"           -> "repairWrite"
      [] p = "repairStoreResponse" -> "repairWrite"
      [] p = "repairWrite"         -> "validate"

\* The statement that follows each statement of generateFuzzingHarness when
\* no error is returned; the repair statements are those of the for loop,
\* with processMessageWithGPT4Turbo inlined.
Flow(p) ==
    CASE p = "readSource"          -> "readTest"
      [] p = "readTest"            -> "storePrompt"
      [] p = "storePrompt"         -> "ask"
      [] p = "ask"                 -> "storeResponse"
      [] p = "storeResponse"       -> "write"
      [] p = "write"               -> "validate"
      [] p = "repairStorePrompt"   -> "repairAsk"
      [] p = "repairAsk"           -> "repairStoreResponse"
      [] p = "repairStoreResponse" -> "repairWrite"
      [] p = "repairWrite"         -> "validate"

\* AfterValidate that repairs only after a diagnostic.
AfterValidateLenient(err) ==
    IF err \in {"nil", "ErrSpawn"} THEN "unitDone" ELSE "repairStorePrompt"

\* AfterValidate that gives up on any validator error.
AfterValidateAbort(err) ==
    IF err = "nil" THEN "unitDone" ELSE "returned"

\* if err == nil { break }, otherwise the body of the for loop goes on.
AfterValidate(err) ==
    IF err = "nil" THEN "unitDone" ELSE "repairStorePrompt"

\* AppendMessage that stores the requests only.
AppendMessageRequestsOnly(msgs, message) ==
    IF message.Role = "user" THEN Append(msgs, message) ELSE msgs

\* AppendMessage that keeps a window of the latest messages.
AppendMessageWindow(msgs, message) ==
    IF Len(msgs) >= 7 THEN Append(Tail(msgs), message)
    ELSE Append(msgs, message)

\* messages = append(messages, message)
AppendMessage(msgs, message) == Append(msgs, message)

\* WriteFile that opens the file for appending.
WriteFileAppend(fs, path, data) ==
    [fs EXCEPT ![path] = File(fs[path].data \o data)]

\* WriteFile that writes the source file d/A.s whatever the path.
WriteFileToSource(fs, path, data) == [fs EXCEPT ![PathA] = File(data)]

\* os.WriteFile(path, []byte(data), 0644) when it succeeds.
WriteFile(fs, path, data) == [fs EXCEPT ![path] = File(data)]

\* IsNotExist that holds of every path: the file is always created.
IsNotExistAlways(fs, path) == TRUE

\* IsNotExist that holds of no path: the file is never created.
IsNotExistNever(fs, path) == FALSE

\* _, err := os.Stat(path); os.IsNotExist(err)
IsNotExist(fs, path) == ~fs[path].exists

\* os.Create(path) when it succeeds: a new empty file, or the existing file
\* truncated.
Create(fs, path) == [fs EXCEPT ![path] = File(<<>>)]

\* Return that reports success whatever the error.
ReturnNil(e) ==
    /\ pc' = "returned"
    /\ retErr' = "nil"

\* Return that skips to the next contract definition on an error.
ReturnSkip(e) ==
    IF e = "nil"
    THEN pc' = "returned" /\ retErr' = e
    ELSE pc' = "unitDone" /\ retErr' = retErr

\* "return err" out of GenerateFuzzingHarness.
Return(e) ==
    /\ pc' = "returned"
    /\ retErr' = e

\* A collaborator raised error e and the code returns it.
Abort(e) ==
    /\ fatal' = e
    /\ Return(e)

Init ==
    /\ messages = TrainingPrompts
    /\ files \in InitialFiles
    /\ pc = "idle"
    /\ contractDefinitions = <<>>
    /\ i = 0
    /\ testFilePath = <<>>
    /\ contractSourceCode = <<>>
    /\ testContractSourceCode = <<>>
    /\ response = <<>>
    /\ stdErr = <<>>
    /\ retErr = "nil"
    /\ fatal = "nil"
    /\ log = <<>>
    /\ wire = <<>>

(***************************************************************************)
(* GenerateFuzzingHarness and createTestFiles                              *)
(***************************************************************************)
\* The caller invokes GenerateFuzzingHarness(cds); createTestFiles starts.
GenerateFuzzingHarness(cds) ==
    /\ pc = "idle"
    /\ contractDefinitions' = cds
    /\ i' = 1
    /\ pc' = "createTestFiles"
    /\ UNCHANGED <<wire, messages, files, locals, retErr, fatal, log>>

\* One iteration of the loop of createTestFiles: os.Stat, then os.Create
\* when the file does not exist.
CreateTestFile ==
    /\ pc = "createTestFiles"
    /\ i <= Len(contractDefinitions)
    /\ LET path == TestFilePathOf[contractDefinitions[i].SourcePath]
       IN  IF ~IsNotExist(files, path)
           THEN /\ i' = i + 1
                /\ Logged(Op("ensure", i, "exists", path))
                /\ UNCHANGED <<files, pc, retErr, fatal>>
           ELSE \/ /\ files' = Create(files, path)
                   /\ i' = i + 1
                   /\ Logged(Op("ensure", i, "created", path))
                   /\ UNCHANGED <<pc, retErr, fatal>>
                \/ /\ Abort("ErrCreate")
                   /\ Logged(Op("ensure", i, "err", path))
                   /\ UNCHANGED <<files, i>>
    /\ UNCHANGED <<wire, messages, contractDefinitions, locals>>

\* CreateTestFilesDone that may leave createTestFiles after its first file.
CreateTestFilesDoneEarly ==
    /\ pc = "createTestFiles"
    /\ i > Len(contractDefinitions) \/ i > 1
    /\ i' = 1
    /\ pc' = "loop"
    /\ UNCHANGED <<wire, messages, files, contractDefinitions, locals, retErr,
                   fatal, log>>

\* createTestFiles returns nil; generateFuzzingHarness starts its loop.
CreateTestFilesDone ==
    /\ pc = "createTestFiles"
    /\ i > Len(contractDefinitions)
    /\ i' = 1
    /\ pc' = "loop"
    /\ UNCHANGED <<wire, messages, files, contractDefinitions, locals, retErr,
                   fatal, log>>

(***************************************************************************)
(* generateFuzzingHarness                                                  *)
(***************************************************************************)
\* Head of the range loop: the next contract definition, or return nil.
LoopHead ==
    /\ pc = "loop"
    /\ IF i <= Len(contractDefinitions)
       THEN /\ testFilePath' =
                   TestFilePathOf[contractDefinitions[i].SourcePath]
            /\ pc' = "readSource"
            /\ UNCHANGED <<retErr>>
       ELSE /\ Return("nil")
            /\ UNCHANGED <<testFilePath>>
    /\ UNCHANGED <<wire, messages, files, contractDefinitions, i,
                   contractSourceCode, testContractSourceCode, response,
                   stdErr, fatal, log>>

\* os.ReadFile(contractDefinition.SourcePath())
ReadSource ==
    /\ pc = "readSource"
    /\ LET path == contractDefinitions[i].SourcePath
       IN  \/ /\ files[path].exists
              /\ contractSourceCode' = files[path].data
              /\ pc' = Flow(pc)
              /\ Logged(Op("readSource", i, "ok", path))
              /\ UNCHANGED <<retErr, fatal>>
           \/ /\ Abort("ErrReadSource")
              /\ Logged(Op("readSource", i, "err", path))
              /\ UNCHANGED <<contractSourceCode>>
    /\ UNCHANGED <<wire, messages, files, contractDefinitions, i, testFilePath,
                   testContractSourceCode, response, stdErr>>

\* os.ReadFile(testFilePath)
ReadTest ==
    /\ pc = "readTest"
    /\ \/ /\ files[testFilePath].exists
          /\ testContractSourceCode' = files[testFilePath].data
          /\ pc' = Flow(pc)
          /\ Logged(Op("readTest", i, "ok", testFilePath))
          /\ UNCHANGED <<retErr, fatal>>
       \/ /\ Abort("ErrReadTest")
          /\ Logged(Op("readTest", i, "err", testFilePath))
          /\ UNCHANGED <<testContractSourceCode>>
    /\ UNCHANGED <<wire, messages, files, contractDefinitions, i, testFilePath,
                   contractSourceCode, response, stdErr>>

\* Build the generation request and store it: messages = append(messages, message)
StorePrompt ==
    /\ pc = "storePrompt"
    /\ LET cd == contractDefinitions[i]
           message ==
               Message("user",
                   GenerateFuzzHarnessPrompt(cd.SourcePath, testFilePath,
                       contractSourceCode, testContractSourceCode, cd.Name,
                       generateTestContractName(cd.Name)))
       IN  messages' = AppendMessage(messages, message)
    /\ pc' = Flow(pc)
    /\ Logged(Op("append", i, "generate", <<>>))
    /\ UNCHANGED <<wire, files, contractDefinitions, i, locals, retErr, fatal>>

\* Ask that takes the request back out of the history when the call fails.
AskRollback ==
    /\ pc = "ask"
    /\ \/ \E r \in Responses :
             /\ response' = r
             /\ pc' = Flow(pc)
             /\ Logged(Op("ask", i, "ok", <<>>))
             /\ wire' = wire \o <<Sent(i, messages), Received(i, r)>>
             /\ UNCHANGED <<retErr, fatal, messages>>
       \/ /\ Abort("ErrService")
          /\ Logged(Op("ask", i, "err", <<>>))
          /\ wire' = Append(wire, Sent(i, messages))
          /\ messages' = SubSeq(messages, 1, Len(messages) - 1)
          /\ UNCHANGED <<response>>
    /\ UNCHANGED <<files, contractDefinitions, i, testFilePath,
                   contractSourceCode, testContractSourceCode, stdErr>>

\* response, err := AskGPT4Turbo(messages)
Ask ==
    /\ pc = "ask"
    /\ \/ \E r \in Responses :
             /\ response' = r
             /\ pc' = Flow(pc)
             /\ Logged(Op("ask", i, "ok", <<>>))
             /\ wire' = wire \o <<Sent(i, messages), Received(i, r)>>
             /\ UNCHANGED <<retErr, fatal>>
       \/ /\ Abort("ErrService")
          /\ Logged(Op("ask", i, "err", <<>>))
          /\ wire' = Append(wire, Sent(i, messages))
          /\ UNCHANGED <<response>>
    /\ UNCHANGED <<messages, files, contractDefinitions, i, testFilePath,
                   contractSourceCode, testContractSourceCode, stdErr>>

\* StoreResponse that stores the response with role assistant.
StoreResponseAsAssistant ==
    /\ pc = "storeResponse"
    /\ messages' = AppendMessage(messages, Message("assistant", response))
    /\ pc' = Flow(pc)
    /\ Logged(Op("append", i, "response", <<>>))
    /\ UNCHANGED <<wire, files, contractDefinitions, i, locals, retErr, fatal>>

\* StoreResponse that writes the artifact while the response is appended.
StoreResponseAndWrite ==
    /\ pc = "storeResponse"
    /\ messages' = AppendMessage(messages, Message("system", response))
    /\ files' = WriteFile(files, testFilePath, response)
    /\ pc' = "validate"
    /\ Logged(Op("write", i, "ok", testFilePath))
    /\ UNCHANGED <<wire, contractDefinitions, i, locals, retErr, fatal>>

\* messages = append(messages, Message{Role: "system", Content: response})
StoreResponse ==
    /\ pc = "storeResponse"
    /\ messages' = AppendMessage(messages, Message("system", response))
    /\ pc' = Flow(pc)
    /\ Logged(Op("append", i, "response", <<>>))
    /\ UNCHANGED <<wire, files, contractDefinitions, i, locals, retErr, fatal>>

\* os.WriteFile(testFilePath, []byte(response), 0644). A failure leaves the
\* file as it was (the open failed) or truncated (the write failed).
Write ==
    /\ pc = "write"
    /\ \/ /\ files' = WriteFile(files, testFilePath, response)
          /\ pc' = Flow(pc)
          /\ Logged(Op("write", i, "ok", testFilePath))
          /\ UNCHANGED <<retErr, fatal>>
       \/ /\ files' \in {files, WriteFile(files, testFilePath, <<>>)}
          /\ Abort("ErrWrite")
          /\ Logged(Op("write", i, "err", testFilePath))
    /\ UNCHANGED <<wire, messages, contractDefinitions, i, locals>>

\* Validate that keeps the first diagnostic it received.
ValidateFirstDiagnostic ==
    /\ pc = "validate"
    /\ \E out \in ValidatorOutcomes :
          /\ out.err # "nil" => TotalFailures(log) < MaxRepairs
          /\ stdErr' = IF stdErr = <<>> THEN out.stdErr ELSE stdErr
          /\ pc' = AfterValidate(out.err)
          /\ Logged(Op("validate", i,
                       IF out.err = "nil" THEN "ok" ELSE out.err,
                       testFilePath))
    /\ UNCHANGED <<wire, messages, files, contractDefinitions, i, testFilePath,
                   contractSourceCode, testContractSourceCode, response,
                   retErr, fatal>>

\* stdErr, err := validateTestFile(testFilePath); if err == nil { break }
Validate ==
    /\ pc = "validate"
    /\ \E out \in ValidatorOutcomes :
          /\ out.err # "nil" => TotalFailures(log) < MaxRepairs
          /\ stdErr' = out.stdErr
          /\ pc' = AfterValidate(out.err)
          /\ Logged(Op("validate", i,
                       IF out.err = "nil" THEN "ok" ELSE out.err,
                       testFilePath))
    /\ UNCHANGED <<wire, messages, files, contractDefinitions, i, testFilePath,
                   contractSourceCode, testContractSourceCode, response,
                   retErr, fatal>>

\* RepairStorePrompt whose request also names the contract under repair.
RepairStorePromptWithName ==
    /\ pc = "repairStorePrompt"
    /\ LET message ==
               Message("user",
                   RegenerateFuzzHarnessPrompt(
                       stdErr \o contractDefinitions[i].Name))
       IN  messages' = AppendMessage(messages, message)
    /\ pc' = Flow(pc)
    /\ Logged(Op("append", i, "repair", <<>>))
    /\ UNCHANGED <<wire, files, contractDefinitions, i, locals, retErr, fatal>>

\* processMessageWithGPT4Turbo: messages = append(messages, message), with
\* message the repair request built from stdErr.
RepairStorePrompt ==
    /\ pc = "repairStorePrompt"
    /\ LET message == Message("user", RegenerateFuzzHarnessPrompt(stdErr))
       IN  messages' = AppendMessage(messages, message)
    /\ pc' = Flow(pc)
    /\ Logged(Op("append", i, "repair", <<>>))
    /\ UNCHANGED <<wire, files, contractDefinitions, i, locals, retErr, fatal>>

\* processMessageWithGPT4Turbo: response, err := AskGPT4Turbo(messages)
RepairAsk ==
    /\ pc = "repairAsk"
    /\ \/ \E r \in Responses :
             /\ response' = r
             /\ pc' = Flow(pc)
             /\ Logged(Op("ask", i, "ok", <<>>))
             /\ wire' = wire \o <<Sent(i, messages), Received(i, r)>>
             /\ UNCHANGED <<retErr, fatal>>
       \/ /\ Abort("ErrService")
          /\ Logged(Op("ask", i, "err", <<>>))
          /\ wire' = Append(wire, Sent(i, messages))
          /\ UNCHANGED <<response>>
    /\ UNCHANGED <<messages, files, contractDefinitions, i, testFilePath,
                   contractSourceCode, testContractSourceCode, stdErr>>

\* processMessageWithGPT4Turbo: the response is stored and returned.
RepairStoreResponse ==
    /\ pc = "repairStoreResponse"
    /\ messages' = AppendMessage(messages, Message("system", response))
    /\ pc' = Flow(pc)
    /\ Logged(Op("append", i, "response", <<>>))
    /\ UNCHANGED <<wire, files, contractDefinitions, i, locals, retErr, fatal>>

\* os.WriteFile(generateTestFilePath(contractDefinition.SourcePath()), ...)
RepairWrite ==
    /\ pc = "repairWrite"
    /\ LET path == TestFilePathOf[contractDefinitions[i].SourcePath]
       IN  \/ /\ files' = WriteFile(files, path, response)
              /\ pc' = Flow(pc)
              /\ Logged(Op("write", i, "ok", path))
              /\ UNCHANGED <<retErr, fatal>>
           \/ /\ files' \in {files, WriteFile(files, path, <<>>)}
              /\ Abort("ErrWrite")
              /\ Logged(Op("write", i, "err", path))
    /\ UNCHANGED <<wire, messages, contractDefinitions, i, locals>>

\* UnitDone that starts the next contract definition with a fresh history.
UnitDoneReset ==
    /\ pc = "unitDone"
    /\ i' = i + 1
    /\ pc' = "loop"
    /\ messages' = TrainingPrompts
    /\ Logged(Op("done", i, "ok", <<>>))
    /\ UNCHANGED <<wire, files, contractDefinitions, locals, retErr, fatal>>

\* The break leaves the for loop: the range loop moves to the next
\* contract definition.
UnitDone ==
    /\ pc = "unitDone"
    /\ i' = i + 1
    /\ pc' = "loop"
    /\ Logged(Op("done", i, "ok", <<>>))
    /\ UNCHANGED <<wire, messages, files, contractDefinitions, locals, retErr,
                   fatal>>

Next ==
    \/ \E cds \in Collections : GenerateFuzzingHarness(cds)
    \/ CreateTestFile
    \/ CreateTestFilesDone
    \/ LoopHead
    \/ ReadSource
    \/ ReadTest
    \/ StorePrompt
    \/ Ask
    \/ StoreResponse
    \/ Write
    \/ Validate
    \/ RepairStorePrompt
    \/ RepairAsk
    \/ RepairStoreResponse
    \/ RepairWrite
    \/ UnitDone

Spec == Init /\ [][Next]_vars

\* The single goroutine runs on: a call that can return does return.
FairSpec == Spec /\ WF_vars(Next)

(***************************************************************************)
(* A process that calls GenerateFuzzingHarness again after it returned:    *)
(* the package variable messages and the files outlive the call. Each call *)
(* is given no contract definition or the contract definition A.           *)
(***************************************************************************)
ShortCollections == {<<>>, <<ContractA>>}

\* The calls of GenerateFuzzingHarness made so far.
Invocations(l) == 1 + Count(l, LAMBDA e : e[1] = "invoke")

\* Reinvoke that starts from the seed messages.
ReinvokeFresh(cds) ==
    /\ pc = "returned"
    /\ Invocations(log) < MaxInvocations
    /\ contractDefinitions' = cds
    /\ i' = 1
    /\ pc' = "createTestFiles"
    /\ messages' = TrainingPrompts
    /\ testFilePath' = <<>>
    /\ contractSourceCode' = <<>>
    /\ testContractSourceCode' = <<>>
    /\ response' = <<>>
    /\ stdErr' = <<>>
    /\ retErr' = "nil"
    /\ fatal' = "nil"
    /\ Logged(Op("invoke", 0, "again", <<>>))
    /\ UNCHANGED <<files, wire>>

\* The caller invokes GenerateFuzzingHarness(cds) after an earlier call
\* returned: the locals are new, messages and the files are as they were.
Reinvoke(cds) ==
    /\ pc = "returned"
    /\ Invocations(log) < MaxInvocations
    /\ contractDefinitions' = cds
    /\ i' = 1
    /\ pc' = "createTestFiles"
    /\ testFilePath' = <<>>
    /\ contractSourceCode' = <<>>
    /\ testContractSourceCode' = <<>>
    /\ response' = <<>>
    /\ stdErr' = <<>>
    /\ retErr' = "nil"
    /\ fatal' = "nil"
    /\ Logged(Op("invoke", 0, "again", <<>>))
    /\ UNCHANGED <<messages, files, wire>>

ProcessNext ==
    \/ \E cds \in ShortCollections : GenerateFuzzingHarness(cds)
    \/ \E cds \in ShortCollections : Reinvoke(cds)
    \/ CreateTestFile
    \/ CreateTestFilesDone
    \/ LoopHead
    \/ ReadSource
    \/ ReadTest
    \/ StorePrompt
    \/ Ask
    \/ StoreResponse
    \/ Write
    \/ Validate
    \/ RepairStorePrompt
    \/ RepairAsk
    \/ RepairStoreResponse
    \/ RepairWrite
    \/ UnitDone

ProcessSpec == Init /\ [][ProcessNext]_vars

(***************************************************************************)
(* generateTestFilePath on its own: the three calls of the package, each   *)
(* applied to the source path of one contract definition, for every path   *)
(* of up to MaxPathLen tokens.                                             *)
(***************************************************************************)
PathTokens == {"d", "/", "A", ".", "s"}

InputPaths == UNION {[1..n -> PathTokens] : n \in 0..MaxPathLen}

PathInit ==
    /\ messages = TrainingPrompts
    /\ files = [p \in AllPaths |-> Absent]
    /\ pc = "deriveCreate"
    /\ contractDefinitions \in {<<Contract(<<"A">>, p)>> : p \in InputPaths}
    /\ i = 1
    /\ testFilePath = <<>>
    /\ contractSourceCode = <<>>
    /\ testContractSourceCode = <<>>
    /\ response = <<>>
    /\ stdErr = <<>>
    /\ retErr = "nil"
    /\ fatal = "nil"
    /\ log = <<>>
    /\ wire = <<>>

\* createTestFiles: testFilePath := generateTestFilePath(SourcePath())
DeriveInCreateTestFiles ==
    /\ pc = "deriveCreate"
    /\ Logged(Op("ensure", i, "derived",
                 generateTestFilePath(contractDefinitions[i].SourcePath)))
    /\ pc' = "deriveGenerate"
    /\ UNCHANGED <<wire, messages, files, contractDefinitions, i, locals,
                   retErr, fatal>>

\* generateFuzzingHarness: testFilePath := generateTestFilePath(SourcePath())
DeriveInGenerate ==
    /\ pc = "deriveGenerate"
    /\ testFilePath' = generateTestFilePath(contractDefinitions[i].SourcePath)
    /\ pc' = "deriveRepair"
    /\ UNCHANGED <<wire, messages, files, contractDefinitions, i,
                   contractSourceCode, testContractSourceCode, response,
                   stdErr, retErr, fatal, log>>

\* The repair write: os.WriteFile(generateTestFilePath(SourcePath()), ...)
DeriveInRepairWrite ==
    /\ pc = "deriveRepair"
    /\ Logged(Op("write", i, "derived",
                 generateTestFilePath(contractDefinitions[i].SourcePath)))
    /\ pc' = "derived"
    /\ UNCHANGED <<wire, messages, files, contractDefinitions, i, locals,
                   retErr, fatal>>

PathNext ==
    \/ DeriveInCreateTestFiles
    \/ DeriveInGenerate
    \/ DeriveInRepairWrite

PathSpec == PathInit /\ [][PathNext]_vars

(***************************************************************************)
(* Properties.                                                             *)
(***************************************************************************)
IsOp(e, name) == e[1] = name

FailedValidate(e) == e[1] = "validate" /\ e[3] # "ok"

\* C1: after a validator call that reports a failure, the next operations
\* of the run are, in this order and with nothing between them: the repair
\* request built from the diagnostic is appended to the history, the
\* generative client is called, its response is appended, the response is
\* written over the artifact, and the validator is called on that artifact.
\* The chain is cut short only by a failing client call or write.
C1_RepairCycleOrder ==
    /\ \A j \in 1..Len(log) :
          FailedValidate(log[j]) =>
             LET u == log[j][2]
                 path == log[j][4]
                 n == Len(log) - j
             IN  /\ n >= 1 => log[j + 1] = Op("append", u, "repair", <<>>)
                 /\ n >= 2 => IsOp(log[j + 2], "ask") /\ log[j + 2][2] = u
                 /\ n >= 3 => /\ log[j + 2][3] = "ok"
                              /\ log[j + 3] = Op("append", u, "response", <<>>)
                 /\ n >= 4 => /\ IsOp(log[j + 4], "write")
                              /\ log[j + 4][2] = u
                              /\ log[j + 4][4] = path
                 /\ n >= 5 => /\ log[j + 4][3] = "ok"
                              /\ IsOp(log[j + 5], "validate")
                              /\ log[j + 5][2] = u
                              /\ log[j + 5][4] = path
    /\ pc = "repairAsk" =>
          Last(messages) = Message("user", RegenerateFuzzHarnessPrompt(stdErr))

\* C1 witness: a whole repair cycle ran, up to the second validator call.
C1_Witness ==
    \E j \in 1..Len(log) :
       /\ FailedValidate(log[j])
       /\ Len(log) >= j + 5
       /\ IsOp(log[j + 5], "validate")

\* C2: when the validator could not be executed, the run returns that
\* error at once and no repair request follows.
C2_ToolFailureAborts ==
    \A j \in 1..Len(log) :
       (IsOp(log[j], "validate") /\ log[j][3] = "ErrSpawn") =>
          /\ j = Len(log)
          /\ pc = "returned"
          /\ retErr = "ErrSpawn"

\* C3: a validation diagnostic never ends the run and is never the error
\* the run returns: a returned error is the error of the file creation, of
\* a file read, of a file write or of the generative client, and that
\* failing operation is the last one of the run.
C3_DiagnosticNeverReturned ==
    /\ \A j \in 1..Len(log) :
          (IsOp(log[j], "validate") /\ log[j][3] = "ExitError") =>
             ~(pc = "returned" /\ j = Len(log))
    /\ pc = "returned" =>
          retErr \in {"nil", "ErrCreate", "ErrReadSource", "ErrReadTest",
                      "ErrWrite", "ErrService"}
    /\ (pc = "returned" /\ retErr # "nil") =>
          /\ Last(log)[3] = "err"
          /\ Last(log)[1] \in {"ensure", "readSource", "readTest", "write",
                               "ask"}

\* C3 witness: the run returned after the validator had reported a
\* diagnostic.
C3_Witness ==
    /\ pc = "returned"
    /\ \E j \in 1..Len(log) :
          IsOp(log[j], "validate") /\ log[j][3] = "ExitError"

\* The operations of the run for contract definition number u.
UnitOps(l, u) == SelectSeq(l, LAMBDA e : e[2] = u)

\* The names of a sequence of operations.
Names(l) == [k \in 1..Len(l) |-> l[k][1]]

\* The contract definitions whose for loop was left by the break.
DoneUnits(l) == {l[k][2] : k \in {m \in 1..Len(l) : l[m][1] = "done"}}

CountOps(l, u, name, outcome) ==
    Count(l, LAMBDA e : e[1] = name /\ e[2] = u /\ e[3] = outcome)

Returned(e) == pc = "returned" /\ retErr = e

\* C4 as stated: after a run that drove its N >= 1 units to DONE the
\* history holds seed_count + 2*(1 + sum(k_i)) messages.
C4_AsStated ==
    (Returned("nil") /\ Len(contractDefinitions) >= 1) =>
       Len(messages) = Len(TrainingPrompts) + 2 * (1 + TotalFailures(log))

\* C4 amended: after a run that drove its N units to DONE, with k_i repair
\* cycles for unit i, the history holds seed_count + 2*(N + sum(k_i))
\* messages, and seed_count is 5.
C4_HistoryLength ==
    /\ Len(TrainingPrompts) = 5
    /\ Returned("nil") =>
          Len(messages) =
             Len(TrainingPrompts)
             + 2 * (Len(contractDefinitions) + TotalFailures(log))

\* C4 witness: a run of several units with repair cycles returned nil.
C4_Witness ==
    /\ Returned("nil")
    /\ Len(contractDefinitions) >= 2
    /\ TotalFailures(log) >= 1

\* C5: every step leaves the old history as a prefix of the new one, and
\* the seed messages as a prefix of the history.
C5_AppendOnly ==
    [][IsPrefix(messages, messages') /\ IsPrefix(TrainingPrompts, messages')]_vars

\* C5 witness: the run aborted after several exchanges were stored.
C5_Witness ==
    /\ pc = "returned"
    /\ retErr # "nil"
    /\ Len(messages) >= Len(TrainingPrompts) + 4

\* C6: at every validator call the artifact of the unit holds exactly the
\* text of the last message of the history, which is the response just
\* received.
C6_ArtifactIsLastResponse ==
    pc = "validate" =>
       LET path == TestFilePathOf[contractDefinitions[i].SourcePath]
       IN  /\ testFilePath = path
           /\ files[path] = File(Last(messages).Content)
           /\ Last(messages) = Message("system", response)

\* C6 witness: the validator is called on a repaired artifact whose text
\* differs from the response it replaced.
C6_Witness ==
    /\ pc = "validate"
    /\ ValidateFailures(log, i) >= 1
    /\ messages[Len(messages) - 2].Content # Last(messages).Content

\* C7: when the validator never reports a failure, then each time the loop
\* moves on, the operations for every unit that is DONE are the ensure
\* step, the two reads, the request, one generative call, the response, one
\* write, one validator call, DONE.
C7_FirstPassSuccess ==
    (pc = "loop" /\ TotalFailures(log) = 0) =>
       \A u \in DoneUnits(log) :
          /\ Names(UnitOps(log, u)) =
                <<"ensure", "readSource", "readTest", "append", "ask",
                  "append", "write", "validate", "done">>
          /\ \A k \in 1..Len(UnitOps(log, u)) :
                UnitOps(log, u)[k][3] \in
                   {"exists", "created", "ok", "generate", "response"}

\* C7 witness: two units are DONE and the validator never failed.
C7_Witness ==
    /\ pc = "loop"
    /\ TotalFailures(log) = 0
    /\ Cardinality(DoneUnits(log)) >= 2

\* C8: each time the loop moves on, a unit that is DONE after k validator
\* failures had 1 generation request, k repair requests, k+1 generative
\* calls, k+1 writes and k+1 validator calls.
C8_RepairCounts ==
    pc = "loop" =>
    \A u \in DoneUnits(log) :
       LET k == ValidateFailures(log, u)
       IN  /\ CountOps(log, u, "append", "generate") = 1
           /\ CountOps(log, u, "append", "repair") = k
           /\ CountOps(log, u, "append", "response") = k + 1
           /\ CountOps(log, u, "ask", "ok") = k + 1
           /\ CountOps(log, u, "write", "ok") = k + 1
           /\ Count(log, LAMBDA e : e[1] = "validate" /\ e[2] = u) = k + 1
           /\ Count(log, LAMBDA e : e[2] = u /\ e[3] = "err") = 0

\* C8 witness: a unit is DONE after exactly two validator failures.
C8_Witness ==
    /\ pc = "loop"
    /\ \E u \in DoneUnits(log) : ValidateFailures(log, u) = 2

\* The generative client failed on its first call for the second unit.
ClientFailedOnSecondUnit ==
    /\ fatal = "ErrService"
    /\ \E j \in 1..Len(log) : log[j] = Op("ask", 2, "err", <<>>)
    /\ CountOps(log, 2, "ask", "ok") = 0

\* The text of the last response stored before the last request.
FirstUnitResponse == messages[Len(messages) - 1].Content

C10_FatalStopsRun ==
    /\ [](fatal # "nil" =>
            /\ Returned(fatal)
            /\ Last(log)[3] = "err"
            /\ Last(log)[2] = i)
    /\ [][fatal # "nil" => UNCHANGED <<messages, files, log>>]_vars

\* C10 witness: the run returned the error of a client call or of a write
\* made in a repair cycle, with a later unit left.
C10_Witness ==
    /\ fatal \in {"ErrService", "ErrWrite"}
    /\ pc = "returned"
    /\ i < Len(contractDefinitions)
    /\ TotalFailures(log) >= 1

\* The artifact path of contract definition number u.
ArtifactPath(u) == TestFilePathOf[contractDefinitions[u].SourcePath]

\* Unit u was DONE before position j of the log: its validator call
\* reported success.
DoneBefore(l, u, j) ==
    \E k \in 1..(j - 1) : IsOp(l[k], "validate") /\ l[k][2] = u /\ l[k][3] = "ok"

C12_ArtifactExistsBeforeGeneration ==
    /\ (log # <<>> /\ IsOp(Last(log), "ensure") /\ Last(log)[3] # "err") =>
          /\ Last(log)[4] = ArtifactPath(Last(log)[2])
          /\ files[Last(log)[4]].exists
          /\ Last(log)[3] = "created" => files[Last(log)[4]] = File(<<>>)
    /\ pc \in {"storePrompt", "ask"} => files[ArtifactPath(i)].exists
    /\ \A j \in 1..Len(log) :
          (IsOp(log[j], "append") \/ IsOp(log[j], "ask")) =>
             \E k \in 1..(j - 1) :
                /\ IsOp(log[k], "ensure")
                /\ log[k][2] = log[j][2]
                /\ log[k][3] \in {"exists", "created"}

\* C12 witness: a generation request is sent for an artifact that the
\* ensure step created.
C12_Witness ==
    /\ pc = "ask"
    /\ \E k \in 1..Len(log) : log[k] = Op("ensure", i, "created", ArtifactPath(i))

\* C13: a step of createTestFiles leaves every existing file as it is and
\* returns no error when the artifact exists; it creates nothing but the
\* artifact of its unit, empty, when that file does not exist.
C13_EnsureNonDestructive ==
    [][pc = "createTestFiles" =>
          /\ \A p \in AllPaths : files[p].exists => files'[p] = files[p]
          /\ \A p \in AllPaths :
                files'[p] # files[p] =>
                   /\ i <= Len(contractDefinitions)
                   /\ p = ArtifactPath(i)
                   /\ files'[p] = File(<<>>)
          /\ (i <= Len(contractDefinitions) /\ files[ArtifactPath(i)].exists) =>
                (pc' = "createTestFiles" /\ fatal' = "nil")]_vars

\* C13 witness: the ensure step found an artifact with content and left it.
C13_Witness ==
    /\ log # <<>>
    /\ IsOp(Last(log), "ensure")
    /\ Last(log)[3] = "exists"
    /\ files[Last(log)[4]] = File(<<"old">>)

\* C14: when the creation of an artifact fails, the run has returned that
\* error, the history is the one the run started with, and no operation
\* other than ensure steps was made: no read, no request, no generative
\* call.
C14_EnsureFailureIsFatal ==
    fatal = "ErrCreate" =>
       /\ Returned("ErrCreate")
       /\ messages = TrainingPrompts
       /\ wire = <<>>
       /\ \A j \in 1..Len(log) : IsOp(log[j], "ensure")
       /\ Last(log)[3] = "err"

\* C14 witness: the creation of the second unit's artifact failed.
C14_Witness ==
    /\ fatal = "ErrCreate"
    /\ Len(log) = 2

\* A step from the validator call up to the start of the next unit changes
\* neither the history nor any file.
KeepsHistoryAndFiles ==
    pc \in {"validate", "unitDone", "loop"} =>
       (messages' = messages /\ files' = files)

\* A unit after the first starts with the previous unit's last response as
\* the last message of the history.
NextUnitSeesLastResponse ==
    (pc = "readSource" /\ i > 1) =>
       /\ Last(messages) = Message("system", response)
       /\ Last(wire) = Received(i - 1, response)
       /\ Len(messages) = Len(TrainingPrompts) + Len(wire)

\* C15: the validator call, the break and the move to the next unit change
\* neither the history nor any file; when the next unit starts, the last
\* message of the history is the last response of the previous unit.
C15_SuccessChangesNothing ==
    /\ [][KeepsHistoryAndFiles]_vars
    /\ [](NextUnitSeesLastResponse)

\* C15 witness: the second unit starts after a repaired first unit.
C15_Witness ==
    /\ pc = "readSource"
    /\ i = 2
    /\ ValidateFailures(log, 1) >= 1

\* The messages exchanged with the client for the units before unit u.
ExchangedBefore(w, u) ==
    LET earlier == SelectSeq(w, LAMBDA e : e[1] < u)
    IN  [k \in 1..Len(earlier) |-> earlier[k][2]]

\* C16: the history sent with a request for unit j starts with the seed
\* messages followed by every request and response exchanged for the units
\* before j, in the order of the exchanges.
C16_HistorySharedAcrossUnits ==
    pc \in {"ask", "repairAsk"} =>
       IsPrefix(TrainingPrompts \o ExchangedBefore(wire, i), messages)

\* C16 witness: a request for the third unit is about to be sent.
C16_Witness ==
    /\ pc \in {"ask", "repairAsk"}
    /\ i = 3
    /\ Len(ExchangedBefore(wire, i)) >= 6

RepairPositions ==
    {"repairStorePrompt", "repairAsk", "repairStoreResponse", "repairWrite"}

\* A step of the repair cycle: the validator call leads to DONE only when
\* it reported success and to a repair request after any failure, however
\* many came before; a repair statement is left for the next one, for the
\* validator, or by the return of a fatal error.
RepairCycleStep ==
    /\ (pc = "validate" /\ pc' # pc) =>
          IF Last(log')[3] = "ok"
          THEN pc' = "unitDone"
          ELSE pc' = "repairStorePrompt"
    /\ (pc \in RepairPositions /\ pc' # pc) =>
          \/ pc' \in RepairPositions \cup {"validate"}
          \/ pc' = "returned" /\ fatal' # "nil" /\ retErr' = fatal'

\* C17: the repair cycle has no retry bound: it is left only by a
\* successful validation or by a fatal error, and a unit that has failed
\* validation is never DONE and the run has not returned success while its
\* last validator call is a failure.
C17_NoRetryBound ==
    /\ [][RepairCycleStep]_vars
    /\ [](\A u \in 1..Len(contractDefinitions) :
            (ValidateFailures(log, u) >= 1
             /\ CountOps(log, u, "validate", "ok") = 0) =>
               /\ u \notin DoneUnits(log)
               /\ ~Returned("nil"))

\* C17 witness: a repair request is sent after as many validator failures
\* for one unit as the model allows.
C17_Witness ==
    /\ pc = "repairAsk"
    /\ ValidateFailures(log, i) = MaxRepairs

\* Every unit of the collection is DONE.
AllDone ==
    \A u \in 1..Len(contractDefinitions) :
       CountOps(log, u, "validate", "ok") = 1

\* C18: when no fatal error occurs and the validator ends up reporting
\* success for every unit, the run returns, it returns nil, and every unit
\* of the collection is DONE.
C18_Termination ==
    /\ <>(pc = "returned")
    /\ [](pc = "returned" => (fatal = "nil" => (retErr = "nil" /\ AllDone)))
    /\ []((pc = "returned" /\ retErr = "nil") => AllDone)

\* C18 witness: a run of three units returned nil after repairs.
C18_Witness ==
    /\ Returned("nil")
    /\ Len(contractDefinitions) = 3
    /\ TotalFailures(log) = MaxRepairs

(***************************************************************************)
(* C19, C20: what the run leaves on disk.                                  *)
(***************************************************************************)
\* The source paths of the units of the collection.
UnitSourcePaths ==
    {contractDefinitions[k].SourcePath : k \in 1..Len(contractDefinitions)}

\* The companion paths of the units of the collection.
UnitArtifactPaths == {ArtifactPath(u) : u \in 1..Len(contractDefinitions)}

\* The paths a create or a write of the run was issued on.
TouchedPaths ==
    {log[k][4] : k \in {m \in 1..Len(log) :
                          \/ IsOp(log[m], "write")
                          \/ IsOp(log[m], "ensure") /\ log[m][3] # "exists"}}

\* C19: source units are read-only: no step creates, truncates or writes
\* the file at the sourcePath of a unit of the collection, and no create or
\* write is issued on such a path.
C19_SourcesReadOnly ==
    /\ [][\A p \in UnitSourcePaths : files'[p] = files[p]]_vars
    /\ [](TouchedPaths \cap UnitSourcePaths = {})

\* A step changes no file but the companion file of the unit in progress,
\* which becomes empty (created, or truncated by a failed write) or the
\* response just received; the history is written nowhere.
OnlyArtifactChanges ==
    \A p \in AllPaths :
       files'[p] # files[p] =>
          /\ pc \in {"createTestFiles", "write", "repairWrite"}
          /\ p = ArtifactPath(i)
          /\ files'[p] \in {File(<<>>), File(response)}

\* After a successful run every unit's companion file holds a response and
\* nothing but companion files was created or written.
ArtifactsOnDisk ==
    /\ \A u \in 1..Len(contractDefinitions) :
          /\ files[ArtifactPath(u)].exists
          /\ files[ArtifactPath(u)].data \in Responses
    /\ TouchedPaths \subseteq UnitArtifactPaths

\* C20 as stated: a successful run of N units leaves N distinct companion
\* files, and creates or writes nothing else.
C20_AsStated ==
    /\ [][OnlyArtifactChanges]_vars
    /\ [](Returned("nil") =>
            /\ ArtifactsOnDisk
            /\ Cardinality(UnitArtifactPaths) = Len(contractDefinitions))

\* C20: a successful run leaves one companion file per distinct sourcePath
\* of the collection (units of one source file share theirs), each at the
\* path derived from the sourcePath; no other file is created or written
\* and the history is never written to a file.
C20_OneArtifactPerSourcePath ==
    /\ [][OnlyArtifactChanges]_vars
    /\ [](Returned("nil") =>
            /\ ArtifactsOnDisk
            /\ Cardinality(UnitArtifactPaths) = Cardinality(UnitSourcePaths))

\* C20 witness: a successful run of two units of one source file, which
\* share one companion file.
C20_Witness ==
    /\ Returned("nil")
    /\ Len(contractDefinitions) = 2
    /\ contractDefinitions[1].SourcePath = contractDefinitions[2].SourcePath
    /\ Cardinality(UnitArtifactPaths) = 1

(***************************************************************************)
(* C21: one operation at a time.                                           *)
(***************************************************************************)
B2N(b) == IF b THEN 1 ELSE 0

\* The step performed the operation named name.
Performed(name) == Len(log') = Len(log) + 1 /\ IsOp(Last(log'), name)

\* The number of kinds of operation a step has in progress: an artifact
\* read, an artifact write or create, a history append, a generative call,
\* a validator call.
OperationsInStep ==
    B2N(Performed("readTest")) + B2N(files' # files)
    + B2N(messages' # messages) + B2N(wire' # wire)
    + B2N(Performed("validate"))

WriteReplaces ==
    (Performed("write") /\ Last(log')[3] = "ok") =>
       LET path == Last(log')[4]
       IN  /\ files'[path] = File(response)
           /\ \A q \in AllPaths \ {path} : files'[q] = files[q]

\* A successful read of an artifact returns the content of the file.
ReadReturnsContent ==
    (Performed("readTest") /\ Last(log')[3] = "ok") =>
       testContractSourceCode' = files[Last(log')[4]].data

\* C22: persistence is a full replace: after the artifact is written with
\* response R the file holds exactly R, whatever it held before, and a
\* read of the artifact returns the content of the file.
C22_FullReplace ==
    [][WriteReplaces /\ ReadReturnsContent]_vars

\* C22 witness: an artifact that held user content, then a first response,
\* holds exactly the repair response written last.
C22_Witness ==
    /\ pc = "validate"
    /\ i = 1
    /\ \E k \in 1..Len(log) : log[k] = Op("ensure", 1, "exists", ArtifactPath(1))
    /\ CountOps(log, 1, "write", "ok") = 2
    /\ files[ArtifactPath(1)] = File(response)
    /\ \E k \in 1..Len(wire) : wire[k] = Received(1, <<"resp1">>)
    /\ response = <<"resp2">>

(***************************************************************************)
(* C23: the companion path.                                                *)
(***************************************************************************)
\* file without its extension.
BaseName(file) == SubSeq(file, 1, Len(file) - Len(Ext(file)))

Appends(l) == SelectSeq(l, LAMBDA e : IsOp(e, "append"))

\* The history changed last at the start of the process or by an append.
AfterAppend == log = <<>> \/ IsOp(Last(log), "append")

\* C24: every message of the history has role system or user: the seed
\* messages have role system, every generation or repair request is
\* appended with role user and every response with role system (stated of
\* the history as each append leaves it).
C24_Roles ==
    AfterAppend =>
       LET appends == Appends(log)
       IN  /\ \A k \in 1..Len(messages) :
                 messages[k].Role \in {"system", "user"}
           /\ \A k \in 1..Len(TrainingPrompts) :
                 /\ TrainingPrompts[k].Role = "system"
                 /\ messages[k] = TrainingPrompts[k]
           /\ Len(messages) = Len(TrainingPrompts) + Len(appends)
           /\ \A k \in 1..Len(appends) :
                 messages[Len(TrainingPrompts) + k].Role =
                    IF appends[k][3] \in {"generate", "repair"}
                    THEN "user" ELSE "system"

\* C24 witness: the history holds a generation request, its response, a
\* repair request and its response after the seeds.
C24_Witness ==
    /\ pc = "repairWrite"
    /\ Len(messages) = Len(TrainingPrompts) + 4
    /\ [k \in 1..4 |-> Appends(log)[k][3]] =
          <<"generate", "response", "repair", "response">>

(***************************************************************************)
(* C25: what a repair request carries.                                     *)
(***************************************************************************)
\* The diagnostic the validator returns with an error of kind err.
DiagOf(err) == (CHOOSE o \in ValidatorOutcomes : o.err = err).stdErr

\* The positions in the log of the appends of repair requests.
RepairAppends(l) ==
    {m \in 1..Len(l) : IsOp(l[m], "append") /\ l[m][3] = "repair"}

\* The message of the history stored by the append at position m of the log.
MessageOf(l, m) ==
    messages[Len(TrainingPrompts)
             + Cardinality({n \in 1..m : IsOp(l[n], "append")})]

\* C25: the text of a repair request is a function of the validator
\* diagnostic alone: when a repair request has been appended, it and every
\* earlier one is the repair template around its diagnostic, and two repair
\* requests built from the same diagnostic are identical, whatever the
\* name, paths and contents of the units they are for.
C25_RepairRequestFromDiagnosticOnly ==
    pc = "repairAsk" =>
       \A m \in RepairAppends(log) :
          /\ IsOp(log[m - 1], "validate")
          /\ MessageOf(log, m) =
                Message("user",
                    <<"R0">> \o DiagOf(log[m - 1][3]) \o <<"R1">>)
          /\ \A n \in RepairAppends(log) :
                DiagOf(log[n - 1][3]) = DiagOf(log[m - 1][3]) =>
                   MessageOf(log, n) = MessageOf(log, m)

\* C25 witness: two units of different names and source paths were each
\* repaired after the same diagnostic.
C25_Witness ==
    /\ pc = "repairAsk"
    /\ i = 2
    /\ contractDefinitions = <<ContractA, ContractC>>
    /\ \E m, n \in RepairAppends(log) :
          /\ log[m][2] = 1
          /\ log[n][2] = 2
          /\ log[m - 1][3] = "ExitError"
          /\ log[n - 1][3] = "ExitError"

(***************************************************************************)
(* C26: the history across invocations.                                    *)
(***************************************************************************)
\* The step is a call of GenerateFuzzingHarness after an earlier call
\* returned.
IsReinvocation == pc = "returned" /\ pc' = "createTestFiles"

\* C26: the history is created once and never reset: a later invocation
\* of GenerateFuzzingHarness starts from the history the earlier ones left,
\* aborted ones included, and no step of any invocation shortens it.
C26_HistoryOutlivesInvocation ==
    [][/\ IsReinvocation => messages' = messages
       /\ IsPrefix(messages, messages')
       /\ Len(messages') >= Len(messages)]_vars

\* C26 witness: a second invocation sends its generation request after the
\* first one aborted on a failed write, with the first one's request and
\* response still in the history.
C26_Witness ==
    /\ Invocations(log) = 2
    /\ pc = "ask"
    /\ \E k \in 1..Len(log) : IsOp(log[k], "write") /\ log[k][3] = "err"
    /\ Len(messages) = Len(TrainingPrompts) + 3

(***************************************************************************)
(* C27: the diagnostic of a repair request.                                *)
(***************************************************************************)
\* C27: when a repair request has been appended, the operation before the
\* append is the failed validator call on the artifact of the unit in
\* progress, and the request embeds the diagnostic of that call.
C27_LatestDiagnostic ==
    pc = "repairAsk" =>
       LET v == log[Len(log) - 1]
       IN  /\ Last(log) = Op("append", i, "repair", <<>>)
           /\ IsOp(v, "validate")
           /\ v[2] = i
           /\ v[3] # "ok"
           /\ v[4] = ArtifactPath(i)
           /\ stdErr = DiagOf(v[3])
           /\ Last(messages).Content = RegenerateFuzzHarnessPrompt(stdErr)

\* C27 witness: the second repair request of a unit embeds the empty
\* diagnostic of the validator call before it, not the diagnostic of the
\* unit's first failed validation.
C27_Witness ==
    /\ pc = "repairAsk"
    /\ \E k \in 1..(Len(log) - 2) :
          log[k] = Op("validate", i, "ExitError", ArtifactPath(i))
    /\ log[Len(log) - 1] = Op("validate", i, "ErrSpawn", ArtifactPath(i))
    /\ Last(messages).Content = RegenerateFuzzHarnessPrompt(<<>>)

(***************************************************************************)
(* C28: the artifact content of a generation request.                      *)
(***************************************************************************)
\* The earlier units of the collection whose companion path is that of u.
EarlierSharers(u) == {v \in 1..(u - 1) : ArtifactPath(v) = ArtifactPath(u)}

\* The text of the last response the client gave for a unit of units.
LastResponseFor(w, units) ==
    LET hits == {k \in 1..Len(w) :
                    w[k][1] \in units /\ w[k][2].Role = "system"}
    IN  w[CHOOSE k \in hits : \A m \in hits : m <= k][2].Content

\* What the companion file of unit u holds when u starts: the last response
\* of an earlier unit of the same companion path, else nothing when the
\* ensure step created the file, else what the file held before the run.
ContentAtStart(u) ==
    IF EarlierSharers(u) # {}
    THEN LastResponseFor(wire, EarlierSharers(u))
    ELSE IF \E k \in 1..Len(log) :
               IsOp(log[k], "ensure") /\ log[k][3] = "created"
               /\ log[k][4] = ArtifactPath(u)
         THEN <<>>
         ELSE <<"old">>

\* C28: the generation request of a unit embeds the content its companion
\* artifact has on disk when the unit is generated: empty for a file the
\* ensure step created, the existing content for a file that was there,
\* the last response persisted for an earlier unit of the same path.
C28_RequestEmbedsArtifact ==
    pc = "ask" =>
       LET cd == contractDefinitions[i]
       IN  /\ files[ArtifactPath(i)].data = ContentAtStart(i)
           /\ Last(messages).Content =
                 GenerateFuzzHarnessPrompt(cd.SourcePath, ArtifactPath(i),
                     contractSourceCode, ContentAtStart(i), cd.Name,
                     generateTestContractName(cd.Name))

\* C28 witness: the generation request of B, the second contract of the
\* file of A, embeds the repair response persisted for A.
C28_Witness ==
    /\ pc = "ask"
    /\ i = 2
    /\ contractDefinitions[2] = ContractB
    /\ \E k \in 1..Len(wire) : wire[k] = Received(1, <<"resp1">>)
    /\ ContentAtStart(2) = <<"resp2">>
    /\ testContractSourceCode = <<"resp2">>

(***************************************************************************)
(* C29: the length of the history at DONE.                                 *)
(***************************************************************************)
\* The messages appended to the history for unit u.
AppendsFor(l, u) == Count(l, LAMBDA e : e[1] = "append" /\ e[2] = u)

\* C29: when a unit reaches DONE in the first invocation of a process, the
\* history holds the 5 seeds and 2 messages for each unit completed so far
\* and each repair cycle performed so far: unit u contributed 2*(1 + k)
\* messages, k being its number of repair cycles.
C29_HistoryLengthAtDone ==
    pc = "unitDone" =>
       /\ Len(TrainingPrompts) = 5
       /\ DoneUnits(log) = 1..(i - 1)
       /\ Len(messages) = 5 + 2 * (i + TotalFailures(log))
       /\ \A u \in 1..i :
             AppendsFor(log, u) = 2 * (1 + ValidateFailures(log, u))

\* C29 witness: the second unit reaches DONE after one repair cycle, the
\* first unit having had one too: 5 + 2*(2 + 2) messages.
C29_Witness ==
    /\ pc = "unitDone"
    /\ i = 2
    /\ ValidateFailures(log, 1) = 1
    /\ ValidateFailures(log, 2) = 1
    /\ Len(messages) = 13

(***************************************************************************)
(* C30: what a generative call is given.                                   *)
(***************************************************************************)
\* The positions in the log of the generative calls.
Asks(l) == {m \in 1..Len(l) : IsOp(l[m], "ask")}

\* The requests the client was sent, in order.
Requests(w) == SelectSeq(w, LAMBDA e : e[2].Role = "user")

\* The last operation was a generative call.
AfterAsk == log # <<>> /\ IsOp(Last(log), "ask")

\* C30: the history is never truncated, every generative call comes right
\* after the append of its request, which is the last message of the
\* history the call is given, and when a call is due the history is the
\* seeds and every message appended so far, the request last.
C30_CallSeesWholeHistory ==
    /\ (AfterAppend \/ AfterAsk) =>
          Len(messages) = Len(TrainingPrompts) + Len(Appends(log))
    /\ AfterAsk =>
          LET asks     == Asks(log)
              requests == Requests(wire)
          IN  /\ Len(requests) = Cardinality(asks)
              /\ \A m \in asks :
                    /\ m > 1
                    /\ IsOp(log[m - 1], "append")
                    /\ log[m - 1][3] \in {"generate", "repair"}
                    /\ log[m - 1][2] = log[m][2]
                    /\ MessageOf(log, m - 1).Role = "user"
                    /\ requests[Cardinality({n \in asks : n <= m})] =
                          <<log[m][2], MessageOf(log, m - 1)>>
    /\ pc \in {"ask", "repairAsk"} =>
          /\ IsPrefix(TrainingPrompts, messages)
          /\ IsOp(Last(log), "append")
          /\ Last(log)[3] \in {"generate", "repair"}
          /\ Last(messages).Role = "user"
          /\ IsPrefix(ExchangedBefore(wire, i + 1),
                      SubSeq(messages, Len(TrainingPrompts) + 1,
                             Len(messages)))

\* C30 witness: the third call of a run was given a history whose last
\* message is the repair request appended just before it.
C30_Witness ==
    /\ pc = "repairStoreResponse"
    /\ Cardinality(Asks(log)) = 3
    /\ Len(messages) = Len(TrainingPrompts) + 5
    /\ Last(messages) = Message("user", RegenerateFuzzHarnessPrompt(stdErr))
    /\ wire[Len(wire) - 1] = <<i, Last(messages)>>

(***************************************************************************)
(* C31: requests and responses in the history.                             *)
(***************************************************************************)
\* The messages of the history after the seed messages.
AfterSeeds(msgs) == SubSeq(msgs, Len(TrainingPrompts) + 1, Len(msgs))

\* h is a request, its response, a request, its response, and so on.
Alternates(h) ==
    \A k \in 1..Len(h) : h[k].Role = IF k % 2 = 1 THEN "user" ELSE "system"

\* The positions of h that hold a request followed by another request.
AdjacentRequests(h) ==
    {k \in 1..(Len(h) - 1) : h[k].Role = "user" /\ h[k + 1].Role = "user"}

\* The failed generative calls of l that a later append follows.
FailedAsksBeforeAppend(l) ==
    {m \in Asks(l) :
        /\ l[m][3] = "err"
        /\ \E n \in (m + 1)..Len(l) : IsOp(l[n], "append")}

\* C31 as stated: after the seed messages the history alternates request
\* and response, starting with a request, so that two requests are never
\* adjacent and only the final message can be an unanswered request.
C31_AsStated == Alternates(AfterSeeds(messages))

\* C31: after the seed messages the history starts with a request, every
\* response comes right after the request it answers, and as many requests
\* are followed by another request as generative calls failed before a
\* later invocation appended to the history: within the first invocation
\* of a process the history alternates request and response (stated of the
\* history as each append leaves it).
C31_AlternatesUntilFailedCall ==
    AfterAppend =>
       LET h == AfterSeeds(messages)
           n == Len(h)
       IN  /\ n >= 1 => h[1].Role = "user"
           /\ \A k \in 1..n :
                 h[k].Role = "system" => k > 1 /\ h[k - 1].Role = "user"
           /\ Cardinality(AdjacentRequests(h)) =
                 Cardinality(FailedAsksBeforeAppend(log))
           /\ Cardinality(AdjacentRequests(h)) <= Invocations(log) - 1
           /\ Invocations(log) = 1 => Alternates(h)
           /\ (n >= 1 /\ h[n].Role = "system") =>
                 /\ Len(wire) >= 2
                 /\ wire[Len(wire) - 1] = <<i, h[n - 1]>>
                 /\ wire[Len(wire)] = <<i, h[n]>>

\* C31 witness: the second invocation of a process appended its request
\* right after the request a failed call of the first invocation left
\* unanswered, and then the response to it.
C31_Witness ==
    /\ Invocations(log) = 2
    /\ pc = "write"
    /\ Len(messages) = Len(TrainingPrompts) + 3
    /\ [k \in 1..3 |-> AfterSeeds(messages)[k].Role] =
          <<"user", "user", "system">>
    /\ \E m \in Asks(log) : log[m][3] = "err"

(***************************************************************************)
(* C32: a generative call that fails.                                      *)
(***************************************************************************)
\* The step appends a request to the history.
AppendsRequest == Performed("append") /\ Last(log')[3] \in {"generate", "repair"}

\* The step is a generative call that fails.
FailedCall == Performed("ask") /\ Last(log')[3] = "err"

\* The append of a request adds that one message and leaves the files alone.
RequestAppendStep ==
    AppendsRequest =>
       /\ Len(messages') = Len(messages) + 1
       /\ SubSeq(messages', 1, Len(messages)) = messages
       /\ Last(messages').Role = "user"
       /\ files' = files
       /\ pc' \in {"ask", "repairAsk"}

\* A failed call comes right after the append of its request and returns
\* the error with the history and the files as the append left them.
FailedCallStep ==
    FailedCall =>
       /\ IsOp(Last(log), "append")
       /\ Last(log)[2] = i
       /\ Last(log)[3] \in {"generate", "repair"}
       /\ messages' = messages
       /\ Last(messages').Role = "user"
       /\ wire' = Append(wire, <<i, Last(messages')>>)
       /\ files' = files
       /\ pc' = "returned"
       /\ retErr' = "ErrService"
       /\ fatal' = "ErrService"

\* C32: when a generative call fails the request that was sent is not
\* rolled back: the run returns the error with the history ending with
\* that request of role user, one message longer than before the request
\* was appended, no response is appended, and the files, the artifact of
\* the unit among them, hold what they held before the exchange.
C32_FailedCallKeepsRequest == [][RequestAppendStep /\ FailedCallStep]_vars

\* C32 witness: the call for a repair request failed: the run returned
\* the error, the history ends with the repair request after the
\* generation request and its response, and the artifact holds the first
\* response.
C32_Witness ==
    /\ pc = "returned"
    /\ retErr = "ErrService"
    /\ Last(log) = Op("ask", i, "err", <<>>)
    /\ Len(messages) = Len(TrainingPrompts) + 3
    /\ Last(messages) = Message("user", RegenerateFuzzHarnessPrompt(stdErr))
    /\ Last(wire) = <<i, Last(messages)>>
    /\ files[ArtifactPath(i)].data = response
    /\ response \in Responses

(***************************************************************************)
(* C33: a read that fails.                                                 *)
(***************************************************************************)
\* The step reads the source file or the test file of a unit.
ReadStep == Performed("readSource") \/ Performed("readTest")

\* The error a failed read operation of the given name returns.
ReadError(name) == IF name = "readSource" THEN "ErrReadSource" ELSE "ErrReadTest"

\* A read changes neither the history nor the files nor what the client saw.
ReadChangesNothing ==
    ReadStep => messages' = messages /\ files' = files /\ wire' = wire

\* A failed read returns its error, and the operations of its unit so far
\* are its ensure step and its reads.
FailedReadStep ==
    (ReadStep /\ Last(log')[3] = "err") =>
       /\ pc' = "returned"
       /\ retErr' = ReadError(Last(log')[1])
       /\ fatal' = retErr'
       /\ \A k \in 1..Len(log') :
             log'[k][2] = i =>
                log'[k][1] \in {"ensure", "readSource", "readTest"}
       /\ Len(messages') =
             Len(TrainingPrompts) + 2 * (i - 1 + TotalFailures(log'))

\* C33: when reading the source file or the companion artifact of a unit
\* fails, the run returns that error with no history append, generative
\* call, validator call or artifact write performed for the unit: its reads
\* change neither the history nor the files, so both are as the units
\* before it (and the ensure steps) left them.
C33_FailedReadAbortsFirst == [][ReadChangesNothing /\ FailedReadStep]_vars

\* C33 witness: reading the companion artifact of the second unit failed
\* after its source was read; the history holds the exchange of the first
\* unit only.
C33_Witness ==
    /\ pc = "returned"
    /\ retErr = "ErrReadTest"
    /\ i = 2
    /\ Last(log) = Op("readTest", 2, "err", ArtifactPath(2))
    /\ log[Len(log) - 1][1] = "readSource"
    /\ Len(messages) = Len(TrainingPrompts) + 2

(***************************************************************************)
(* C34: a write that fails.                                                *)
(***************************************************************************)
\* The last operation of the run so far is a write that failed.
AfterFailedWrite == log # <<>> /\ IsOp(Last(log), "write") /\ Last(log)[3] = "err"

\* A failed write comes right after the append of the response it was
\* given and returns its error with the history as that append left it.
FailedWriteStep ==
    (Performed("write") /\ Last(log')[3] = "err") =>
       /\ Last(log) = Op("append", i, "response", <<>>)
       /\ Last(log')[4] = ArtifactPath(i)
       /\ messages' = messages
       /\ Last(messages') = Message("system", response)
       /\ Last(wire) = Received(i, response)
       /\ files'[ArtifactPath(i)].data \in {files[ArtifactPath(i)].data, <<>>}
       /\ pc' = "returned"
       /\ retErr' = "ErrWrite"
       /\ fatal' = "ErrWrite"

\* No operation follows a failed write: the validator is not called.
NothingAfterFailedWrite == AfterFailedWrite => log' = log /\ pc' = pc

\* C34: when writing the artifact fails, after a generation or a repair
\* response, the run returns that error and performs no further operation,
\* so the validator is not called on that artifact, and the response that
\* was not persisted is the last message of the history.
C34_FailedWriteAborts == [][FailedWriteStep /\ NothingAfterFailedWrite]_vars

\* C34 witness: the write of a repair response failed: the run returned
\* the error, the response is the last of the four messages after the
\* seeds and the artifact does not hold it.
C34_Witness ==
    /\ pc = "returned"
    /\ retErr = "ErrWrite"
    /\ AfterFailedWrite
    /\ TotalFailures(log) = 1
    /\ Len(messages) = Len(TrainingPrompts) + 4
    /\ Last(messages) = Message("system", response)
    /\ files[ArtifactPath(i)].data # response

(***************************************************************************)
(* C35: the ensure steps and the first generative call.                    *)
(***************************************************************************)
\* The first generative call of the run is due or was just made.
AtFirstCall ==
    \/ pc = "ask" /\ Asks(log) = {}
    \/ AfterAsk /\ Cardinality(Asks(log)) = 1

\* C35: when the first generative call of the run is made, the run has
\* performed the ensure step of every unit of the collection, in collection
\* order and without error, as its first operations, and the companion
\* artifact of every unit exists.
C35_AllEnsuredBeforeFirstCall ==
    AtFirstCall =>
       LET N == Len(contractDefinitions)
       IN  /\ i = 1
           /\ Len(log) > N
           /\ \A u \in 1..N :
                 /\ IsOp(log[u], "ensure")
                 /\ log[u][2] = u
                 /\ log[u][3] \in {"exists", "created"}
                 /\ log[u][4] = ArtifactPath(u)
                 /\ files[ArtifactPath(u)].exists
           /\ \A m \in Asks(log) : m > N

\* C35 witness: the first generation request of a run over two units is
\* due, and the ensure step has created the companion artifact of the
\* second unit.
C35_Witness ==
    /\ pc = "ask"
    /\ Asks(log) = {}
    /\ contractDefinitions = <<ContractA, ContractC>>
    /\ log[2] = Op("ensure", 2, "created", ArtifactPath(2))
    /\ files[ArtifactPath(2)] = File(<<>>)

(***************************************************************************)
(* C36: a run over no contract definition.                                 *)
(***************************************************************************)
\* The step is one of an invocation that was given no contract definition.
EmptyRunStep == contractDefinitions' = <<>> /\ pc' # "idle"

\* The operations logged so far, the invocation markers left out.
Operations(l) == SelectSeq(l, LAMBDA e : ~IsOp(e, "invoke"))

\* A step of an invocation over no contract definition performs no
\* operation, changes neither the files nor the history nor what the
\* client saw, and returns nil.
EmptyRunChangesNothing ==
    EmptyRunStep =>
       /\ files' = files
       /\ messages' = messages
       /\ wire' = wire
       /\ Operations(log') = Operations(log)
       /\ pc' \in {"createTestFiles", "loop", "returned"}
       /\ pc' = "returned" => retErr' = "nil" /\ fatal' = "nil"

\* C36: an invocation of GenerateFuzzingHarness with an empty collection
\* returns nil without creating or writing a file, without a generative or
\* a validator call and with the history as it found it.
C36_EmptyCollection == [][EmptyRunChangesNothing]_vars

\* C36 witness: the second invocation of a process, given no contract
\* definition, returned nil; the history still holds the request and the
\* response of the first invocation.
C36_Witness ==
    /\ Invocations(log) = 2
    /\ contractDefinitions = <<>>
    /\ pc = "returned"
    /\ retErr = "nil"
    /\ IsOp(Last(log), "invoke")
    /\ Len(messages) = Len(TrainingPrompts) + 2

====
